---- MODULE Spec2Model ----
(***************************************************************************)
(* A model of two pieces of the PDF object-graph serialization layer:      *)
(*                                                                         *)
(*   - WriteDictionaryTransformer.transform, the writer's dictionary       *)
(*     transformer (a write pass over a graph of dictionaries);            *)
(*   - StreamXREF.read, the reader of cross-reference streams.             *)
(*                                                                         *)
(* SpecW is a write pass (SpecCyclic: over a graph with a cycle), SpecX    *)
(* is one read of an /XRef stream.                                         *)
(***************************************************************************)
EXTENDS Integers, Sequences, FiniteSets, TLC

VARIABLES
    \* ---- write pass ----
    kids,       \* kids[d]: the values of dictionary d, in insertion order
    ref,        \* ref[d]: the Reference dictionary d carries (get_reference())
    dup,        \* context.duplicate_references, by owner of the Reference
    out,        \* context.destination: the tokens written so far
    stack,      \* the active calls of transform, innermost last
    nextNum,    \* the next unused object number
    pc,         \* "start", "run", "done", "error" (RecursionError)
    \* ---- xref stream read ----
    widths,     \* /W
    index,      \* /Index as a sequence of <<start, length>>
    bytes,      \* xref_stream["DecodedBytes"]
    document,   \* self.get_root() is not None
    idx,        \* the subsection being read (1-based)
    i,          \* the entry of that subsection to read next (0-based)
    bptr,       \* the read position in bytes
    refs,       \* indirect_references
    log,        \* the entries decoded so far: where from, and what
    section,    \* the references appended to the xref
    pcx         \* "read", "done", "error" (AssertionError)

wvars == <<kids, ref, dup, out, stack, nextNum, pc>>
xvars == <<widths, index, bytes, document, idx, i, bptr, refs, log, section, pcx>>
vars == <<wvars, xvars>>

None == -1

(***************************************************************************)
(* Bounds.                                                                 *)
(***************************************************************************)
NumDicts == 4       \* dictionaries of a graph
MaxEntries == 3     \* entries of a graph, all dictionaries together
MaxDepth == 8       \* the interpreter's recursion limit, scaled down

Dicts == 1..NumDicts
Scalar == 0
Values == Dicts \cup {Scalar}

(***************************************************************************)
(* Helpers on sequences.                                                   *)
(***************************************************************************)
Range(s) == {s[j] : j \in 1..Len(s)}

RECURSIVE SumTo(_, _)
SumTo(f, n) == IF n = 0 THEN 0 ELSE f[n] + SumTo(f, n - 1)

Max(S) == CHOOSE m \in S : \A x \in S : x <= m

(***************************************************************************)
(* The write pass.                                                         *)
(***************************************************************************)

\* isinstance(v, Dictionary) or List or Stream or Image: the graphs of the
\* model hold dictionaries and scalars.
IsComposite(v) == v \in Dicts

NoRef == [has |-> FALSE, num |-> None, off |-> None]

\* get_reference(v, context): the Reference v carries if it has an object
\* number, else a new one with the next unused object number.
GetReference(r, n, v) ==
    IF r[v].has /\ r[v].num # None
    THEN [ref |-> r, next |-> n]
    ELSE [ref |-> [r EXCEPT ![v] = [has |-> TRUE, num |-> n, off |-> None]],
          next |-> n + 1]

\* The first loop of transform: every composite value gets its Reference.
RECURSIVE AssignRefs(_, _, _, _)
AssignRefs(vs, j, r, n) ==
    IF j > Len(vs) THEN [ref |-> r, next |-> n]
    ELSE IF IsComposite(vs[j])
         THEN LET g == GetReference(r, n, vs[j])
              IN AssignRefs(vs, j + 1, g.ref, g.next)
         ELSE AssignRefs(vs, j + 1, r, n)

\* out_value as it is written: a Reference is written N G R, a scalar inline.
OutValue(vs, r) ==
    [j \in 1..Len(vs) |->
        IF IsComposite(vs[j])
        THEN [k |-> "R", n |-> r[vs[j]].num]
        ELSE [k |-> "inline", n |-> None]]

\* the displaced composites, in dictionary-iteration order
QueueReversed(vs) ==
    LET q == SelectSeq(vs, IsComposite)
    IN [j \in 1..Len(q) |-> q[Len(q) + 1 - j]]

Queue(vs) == SelectSeq(vs, IsComposite)

\* ref in context.duplicate_references
IsDuplicate(d, dp) == d \in Range(dp)

\* context.duplicate_references.append(ref), before the body is written
NoInsert(dp, d) == dp

InsertDuplicate(dp, d) == Append(dp, d)

\* ref.object_number is not None and ref.byte_offset is None
StartsObject(rd) == rd.has /\ rd.num # None /\ rd.off = None

\* start_object: "N G obj\n", the byte offset recorded in the reference
StartObject(rd) == <<[t |-> "obj", n |-> rd.num, d |-> 0, items |-> <<>>]>>

\* end_object: "endobj\n"
EndObject(rd) == <<[t |-> "endobj", n |-> rd.num, d |-> 0, items |-> <<>>]>>

NoEndObject(started, rd) == <<>>

EndObjectIfStarted(started, rd) == IF started THEN EndObject(rd) ELSE <<>>

\* "<<" k v ... ">>\n"
Body(d, items) == <<[t |-> "dict", n |-> None, d |-> d, items |-> items]>>

\* One call of transform(d) with the calls below it on stack stk: everything
\* up to the loop over the queue, which the frame pushed here stands for.
Transform(d, stk) ==
    LET a == AssignRefs(kids[d], 1, ref, nextNum)
        rd == a.ref[d]
        started == StartsObject(rd)
    IN  /\ nextNum' = a.next
        /\ IF rd.has /\ IsDuplicate(d, dup)
           THEN /\ ref' = a.ref
                /\ stack' = stk
                /\ UNCHANGED <<dup, out>>
           ELSE /\ ref' = IF started
                          THEN [a.ref EXCEPT ![d].off = Len(out)]
                          ELSE a.ref
                /\ dup' = IF rd.has THEN InsertDuplicate(dup, d) ELSE dup
                /\ out' = out
                          \o (IF started THEN StartObject(rd) ELSE <<>>)
                          \o Body(d, OutValue(kids[d], a.ref))
                          \o EndObjectIfStarted(started, rd)
                /\ stack' = Append(stk, [d |-> d, q |-> Queue(kids[d]), j |-> 1])

\* the write pass starts: transform(object_to_transform, context)
StartPass ==
    /\ pc = "start"
    /\ pc' = "run"
    /\ Transform(1, stack)
    /\ UNCHANGED <<kids, xvars>>

\* for e in queue: self.get_root_transformer().transform(e, context)
CallChild ==
    /\ pc = "run"
    /\ stack # <<>>
    /\ LET top == stack[Len(stack)]
       IN /\ top.j <= Len(top.q)
          /\ IF Len(stack) >= MaxDepth
             THEN /\ pc' = "error"
                  /\ UNCHANGED <<ref, dup, out, stack, nextNum>>
             ELSE /\ pc' = pc
                  /\ Transform(top.q[top.j],
                               [stack EXCEPT ![Len(stack)].j = top.j + 1])
    /\ UNCHANGED <<kids, xvars>>

\* return out_value
Return ==
    /\ pc = "run"
    /\ stack # <<>>
    /\ LET top == stack[Len(stack)]
       IN /\ top.j > Len(top.q)
          /\ stack' = SubSeq(stack, 1, Len(stack) - 1)
          /\ pc' = IF Len(stack) = 1 THEN "done" ELSE pc
    /\ UNCHANGED <<kids, ref, dup, out, nextNum, xvars>>

(***************************************************************************)
(* The graphs of a write pass. A graph is a sequence of at most MaxEntries *)
(* values cut into the dictionaries' entries; dictionary 1 is the one the  *)
(* pass starts from, and the others are numbered in the order in which the *)
(* entries first mention them (every graph, up to the dictionaries'        *)
(* names). A dictionary nobody holds is empty and takes no part.           *)
(***************************************************************************)
Mentioned(f, n) == {1} \cup {f[j] : j \in 1..n}

Canonical(f, len) ==
    /\ SumTo(len, NumDicts) = Len(f)
    /\ \A j \in 1..Len(f) :
          f[j] # Scalar => f[j] <= Max(Mentioned(f, j - 1)) + 1
    /\ \A d \in Dicts :
          len[d] > 0 => d \in Mentioned(f, SumTo(len, d - 1))

Segment(f, len, d) ==
    SubSeq(f, SumTo(len, d - 1) + 1, SumTo(len, d))

\* The Reference a dictionary carries before the pass: none (built in
\* memory), numbered but not located, or located (read from a file).
RefStates == {"none", "numbered", "located"}

PresetRef(d, s) ==
    CASE s = "none" -> NoRef
      [] s = "numbered" -> [has |-> TRUE, num |-> d, off |-> None]
      [] s = "located" -> [has |-> TRUE, num |-> d, off |-> 10 * d]

XIdle ==
    /\ widths = <<>> /\ index = <<>> /\ bytes = <<>> /\ document = FALSE
    /\ idx = 0 /\ i = 0 /\ bptr = 0 /\ refs = <<>> /\ log = <<>>
    /\ section = <<>> /\ pcx = "idle"

InitW ==
    /\ \E L \in 0..MaxEntries :
         \E f \in [1..L -> Values] :
           \E len \in [Dicts -> 0..L] :
             /\ Canonical(f, len)
             /\ kids = [d \in Dicts |-> Segment(f, len, d)]
             /\ \E rs \in [Dicts -> RefStates] :
                  /\ \A d \in Dicts : d \notin Mentioned(f, L) => rs[d] = "none"
                  /\ ref = [d \in Dicts |-> PresetRef(d, rs[d])]
    /\ dup = <<>>
    /\ out = <<>>
    /\ stack = <<>>
    /\ nextNum = NumDicts + 1
    /\ pc = "start"
    /\ XIdle

NextW == StartPass \/ CallChild \/ Return

\* The pass is one thread that runs until transform returns.
SpecW == InitW /\ [][NextW]_vars /\ WF_vars(NextW)

(***************************************************************************)
(* What a write pass has written.                                          *)
(***************************************************************************)
Children(d) == {v \in Range(kids[d]) : IsComposite(v)}

\* the dictionaries that take part: the start and every dictionary held
Used == {1} \cup UNION {Children(d) : d \in Dicts}

RECURSIVE Closure(_, _)
Closure(S, n) ==
    IF n = 0 THEN S ELSE Closure(S \cup UNION {Children(d) : d \in S}, n - 1)

\* d and everything reachable from it
Subtree(d) == Closure({d}, NumDicts)

HasCycle == \E d \in Dicts : \E c \in Children(d) : d \in Subtree(c)

\* the places where some dictionary holds d
Holders(d) == {e \in Dicts \X (1..MaxEntries) :
                  e[2] <= Len(kids[e[1]]) /\ kids[e[1]][e[2]] = d}

\* no dictionary is held twice and nothing holds the start: a tree
IsTree == /\ Holders(1) = {}
          /\ \A d \in Dicts : Cardinality(Holders(d)) <= 1

Positions(d) == {j \in 1..Len(out) : out[j].t = "dict" /\ out[j].d = d}
Written(d) == Positions(d) # {}
Min(S) == CHOOSE m \in S : \A x \in S : m <= x
FirstPos(d) == Min(Positions(d))

\* the places of d's bodies that stand between "N G obj" and "endobj"
WrappedBodies(d) ==
    {j \in Positions(d) :
        /\ j > 1 /\ j < Len(out)
        /\ out[j - 1].t = "obj" /\ out[j - 1].n = ref[d].num
        /\ out[j + 1].t = "endobj" /\ out[j + 1].n = ref[d].num}

EndobjCount(n) ==
    Cardinality({j \in 1..Len(out) : out[j].t = "endobj" /\ out[j].n = n})

(***************************************************************************)
(* C1: every Reference in duplicate_references has exactly one             *)
(* "N G obj ... endobj" body in the output, whatever state the reference   *)
(* was in before the pass.                                                 *)
(***************************************************************************)
C1_ExactlyOneBody ==
    \A d \in Range(dup) : Cardinality(WrappedBodies(d)) = 1

(***************************************************************************)
(* C2: a write pass over a graph with cycles terminates, and a dictionary  *)
(* that holds itself is written with /Self as N G R, N its own object      *)
(* number.                                                                 *)
(***************************************************************************)
SelfAsOwnReference ==
    \A d \in Dicts : \A j \in Positions(d) : \A k \in 1..Len(kids[d]) :
        kids[d][k] = d =>
            /\ ref[d].has /\ ref[d].num # None
            /\ out[j].items[k] = [k |-> "R", n |-> ref[d].num]

\* the write passes over the graphs that contain a cycle
InitCyclic == InitW /\ HasCycle

SpecCyclic == InitCyclic /\ [][NextW]_vars /\ WF_vars(NextW)

\* C2: every pass over a graph with a cycle ends, without RecursionError,
\* and /Self is written as the dictionary's own N G R.
C2_CyclesTerminate ==
    /\ <>(pc = "done")
    /\ [](pc # "error" /\ SelfAsOwnReference)

C2_Witness ==
    /\ pc = "done"
    /\ \E d \in Dicts : d \in Children(d) /\ Written(d)
    /\ \E a, b \in Dicts : a # b /\ b \in Children(a) /\ a \in Children(b)
                           /\ Written(a) /\ Written(b)

(***************************************************************************)
(* C3: every reachable dictionary that carries a reference or is held by   *)
(* another dictionary has its body written exactly once; a dictionary C    *)
(* held by A and B has one endobj, and A and B hold the same reference.    *)
(***************************************************************************)
C3_BodyExactlyOnce ==
    pc = "done" =>
        /\ \A d \in Used :
              (ref[d].has \/ Holders(d) # {}) => Cardinality(Positions(d)) = 1
        /\ \A c \in Used : \A a, b \in Dicts :
              (a # b /\ a # c /\ b # c /\ c \in Children(a) /\ c \in Children(b)) =>
                  /\ EndobjCount(ref[c].num) = 1
                  /\ \A ja \in Positions(a), jb \in Positions(b) :
                       \A ka \in 1..Len(kids[a]), kb \in 1..Len(kids[b]) :
                          (kids[a][ka] = c /\ kids[b][kb] = c) =>
                              out[ja].items[ka] = out[jb].items[kb]

(***************************************************************************)
(* C9: a dictionary's body is written before the bodies of its composite   *)
(* children, and the children of one dictionary are emitted in insertion   *)
(* order, the whole subtree of an earlier sibling before a later sibling.  *)
(***************************************************************************)
ParentBeforeChild ==
    \A p \in Dicts : \A c \in Children(p) :
        (c # p /\ Written(c)) => (Written(p) /\ FirstPos(p) < FirstPos(c))

SiblingsInOrder ==
    \A p \in Dicts : \A a, b \in 1..Len(kids[p]) :
        (/\ a < b
         /\ IsComposite(kids[p][a]) /\ IsComposite(kids[p][b])
         /\ kids[p][a] # kids[p][b]
         /\ Written(kids[p][b])) =>
            \A x \in Subtree(kids[p][a]) :
                x # kids[p][b] =>
                    (Written(x) /\ FirstPos(x) < FirstPos(kids[p][b]))

\* C9 as stated: parents first and siblings in order, in every graph.
C9_EveryGraph == ParentBeforeChild /\ SiblingsInOrder

\* every body but the first one written follows the body of a dictionary
\* that holds it
AfterSomeHolder ==
    \A j \in 1..Len(out) :
        (out[j].t = "dict" /\ \E j0 \in 1..(j - 1) : out[j0].t = "dict") =>
            \E p \in Dicts :
                /\ out[j].d \in Children(p)
                /\ \E jp \in 1..(j - 1) : out[jp].t = "dict" /\ out[jp].d = p

\* C9 as amended: the order of the claim holds in a tree; in every graph a
\* body follows the body of one of its holders.
C9_TreeOrder ==
    /\ IsTree => (ParentBeforeChild /\ SiblingsInOrder)
    /\ AfterSomeHolder

C9_Witness ==
    /\ pc = "done"
    /\ IsTree
    /\ \E p \in Dicts : \E a, b \in 1..Len(kids[p]) :
          /\ a < b
          /\ IsComposite(kids[p][a]) /\ IsComposite(kids[p][b])
          /\ Children(kids[p][a]) # {}
          /\ \A x \in Subtree(p) : Written(x)

(***************************************************************************)
(* C10: in every body written, a composite child appears as its Reference  *)
(* and any other child inline; an object body is never started between     *)
(* another object's "N G obj" and its "endobj".                            *)
(***************************************************************************)
ChildrenAsReferences ==
    \A j \in 1..Len(out) :
        out[j].t = "dict" =>
            LET d == out[j].d
            IN /\ Len(out[j].items) = Len(kids[d])
               /\ \A k \in 1..Len(kids[d]) :
                     IF kids[d][k] \in Dicts
                     THEN /\ ref[kids[d][k]].has
                          /\ out[j].items[k] =
                                [k |-> "R", n |-> ref[kids[d][k]].num]
                     ELSE out[j].items[k].k = "inline"

ObjectsNotNested ==
    \A j \in 1..Len(out) :
        /\ out[j].t = "obj" =>
              /\ j + 2 <= Len(out)
              /\ out[j + 1].t = "dict"
              /\ out[j + 2].t = "endobj" /\ out[j + 2].n = out[j].n
        /\ out[j].t = "endobj" =>
              /\ j > 2
              /\ out[j - 2].t = "obj" /\ out[j - 2].n = out[j].n

\* C10: children as references or inline, and no object inside another.
C10_BodiesFlat == ChildrenAsReferences /\ ObjectsNotNested

C10_Witness ==
    /\ pc = "done"
    /\ \E j \in 1..Len(out) :
          /\ out[j].t = "dict"
          /\ \E k1, k2 \in 1..Len(out[j].items) :
                out[j].items[k1].k = "R" /\ out[j].items[k2].k = "inline"
          /\ \E c \in Children(out[j].d) :
                c # out[j].d /\ WrappedBodies(c) # {} /\ FirstPos(c) > j

(***************************************************************************)
(* StreamXREF.read.                                                        *)
(***************************************************************************)
MaxRecords == 3     \* entries of an xref stream, all subsections together
MaxStart == 1       \* the largest first object number of a subsection

\* the generation number of the head of the free list
FreeHeadGeneration == 65535

\* total_entry_width = sum(widths)
TotalEntryWidth(w) == w[1] + w[2] + w[3]

\* one field of `w` bytes read at position p (0-based):
\*     field = (field << 8) + (bytes[bptr] & 0xFF); bptr += 1
RECURSIVE ReadField(_, _, _, _)
ReadField(bs, p, w, acc) ==
    IF w = 0 THEN acc
    ELSE ReadField(bs, p + 1, w - 1, acc * 256 + (bs[p + 1] % 256))

\* the type of the entry at p: 1 when widths[0] is 0
ReadType(bs, p, w) == IF w[1] > 0 THEN ReadField(bs, p, w[1], 0) ELSE 1
ReadField2(bs, p, w) == ReadField(bs, p + w[1], w[2], 0)
ReadField3(bs, p, w) == ReadField(bs, p + w[1] + w[2], w[3], 0)

\* Reference(...) as read() builds it for each type of entry
FreeHead(doc) ==
    [object_number |-> 0, generation_number |-> FreeHeadGeneration,
     byte_offset |-> None, parent_stream_object_number |-> None,
     index_in_parent_stream |-> None, is_in_use |-> FALSE, document |-> doc]

Type0Reference(doc, n, f2, f3) ==
    [object_number |-> n, generation_number |-> f3,
     byte_offset |-> f2, parent_stream_object_number |-> None,
     index_in_parent_stream |-> None, is_in_use |-> FALSE, document |-> doc]

Type1Reference(doc, n, f2, f3) ==
    [object_number |-> n, generation_number |-> f3,
     byte_offset |-> f2, parent_stream_object_number |-> None,
     index_in_parent_stream |-> None, is_in_use |-> TRUE, document |-> doc]

Type2Reference(doc, n, f2, f3) ==
    [object_number |-> n, generation_number |-> 0,
     byte_offset |-> None, parent_stream_object_number |-> f2,
     index_in_parent_stream |-> f3, is_in_use |-> TRUE, document |-> doc]

NewReference(doc, n, type, f2, f3) ==
    CASE type = 0 -> Type0Reference(doc, n, f2, f3)
      [] type = 1 -> Type1Reference(doc, n, f2, f3)
      [] type = 2 -> Type2Reference(doc, n, f2, f3)

\* the place in rs of the first reference with this object number, 0 if none
ExistingIndirectRef(rs, n) ==
    LET at == {k \in 1..Len(rs) : rs[k].object_number = n}
    IN IF at = {} THEN 0 ELSE CHOOSE k \in at : \A m \in at : k <= m

RefIsInReadingState(rs, e, new) ==
    /\ e # 0
    /\ rs[e].is_in_use
    /\ rs[e].generation_number = new.generation_number

RefIsFirstEncountered(rs, e, new) ==
    \/ e = 0
    \/ (~RefIsInReadingState(rs, e, new) /\ ~rs[e].document)

\* the "append" step of one entry
AppendReference(rs, new) ==
    LET e == ExistingIndirectRef(rs, new.object_number)
    IN IF RefIsFirstEncountered(rs, e, new)
       THEN Append(rs, new)
       ELSE IF RefIsInReadingState(rs, e, new)
            THEN [rs EXCEPT
                    ![e].index_in_parent_stream = new.index_in_parent_stream,
                    ![e].parent_stream_object_number =
                        new.parent_stream_object_number]
            ELSE rs

\* one turn of the inner loop: the entry of object start + i
ReadEntry ==
    /\ pcx = "read"
    /\ idx <= Len(index)
    /\ i < index[idx][2]
    /\ LET n == index[idx][1] + i
           type == ReadType(bytes, bptr, widths)
           f2 == ReadField2(bytes, bptr, widths)
           f3 == ReadField3(bytes, bptr, widths)
       IN /\ log' = Append(log, [obj |-> n, at |-> bptr, type |-> type,
                                 field2 |-> f2, field3 |-> f3])
          /\ bptr' = bptr + TotalEntryWidth(widths)
          /\ IF type \in {0, 1, 2}
             THEN /\ refs' = AppendReference(refs,
                                NewReference(document, n, type, f2, f3))
                  /\ i' = i + 1
                  /\ pcx' = pcx
             ELSE \* assert type in [0, 1, 2]
                  /\ pcx' = "error"
                  /\ UNCHANGED <<refs, i>>
    /\ UNCHANGED <<widths, index, bytes, document, idx, section, wvars>>

\* the next range of /Index: start, length, and bptr = 0
NextSubsection ==
    /\ pcx = "read"
    /\ idx <= Len(index)
    /\ i = index[idx][2]
    /\ idx' = idx + 1
    /\ i' = 0
    /\ bptr' = IF idx + 1 <= Len(index) THEN 0 ELSE bptr
    /\ UNCHANGED <<widths, index, bytes, document, refs, log, section, pcx, wvars>>

\* add section, initialize trailer, return
Finish ==
    /\ pcx = "read"
    /\ idx > Len(index)
    /\ section' = refs
    /\ pcx' = "done"
    /\ UNCHANGED <<widths, index, bytes, document, idx, i, bptr, refs, log, wvars>>

(***************************************************************************)
(* The xref streams read: valid streams, that is Σ count records of        *)
(* w1+w2+w3 bytes, each field big-endian.                                  *)
(***************************************************************************)
RECURSIVE Pow256(_)
Pow256(k) == IF k = 0 THEN 1 ELSE 256 * Pow256(k - 1)

EncodeField(v, w) == [k \in 1..w |-> (v \div Pow256(w - k)) % 256]

EncodeRecord(r, w) ==
    EncodeField(r[1], w[1]) \o EncodeField(r[2], w[2]) \o EncodeField(r[3], w[3])

RECURSIVE EncodeAll(_, _, _)
EncodeAll(rs, w, k) ==
    IF k > Len(rs) THEN <<>> ELSE EncodeRecord(rs[k], w) \o EncodeAll(rs, w, k + 1)

WidthSets == {0, 1} \X {1, 2} \X {0, 1}

\* the records a stream of widths w can hold: type 3 is no known type,
\* 258 needs two bytes
RecordSet(w) ==
    (IF w[1] = 0 THEN {1} ELSE 0..3)
    \X (IF w[2] = 1 THEN {7} ELSE {258})
    \X (IF w[3] = 0 THEN {0} ELSE {0, 1})

RECURSIVE SumLengths(_, _)
SumLengths(ix, k) == IF k = 0 THEN 0 ELSE ix[k][2] + SumLengths(ix, k - 1)

WIdle ==
    /\ kids = [d \in Dicts |-> <<>>] /\ ref = [d \in Dicts |-> NoRef]
    /\ dup = <<>> /\ out = <<>> /\ stack = <<>> /\ nextNum = 0 /\ pc = "idle"

InitX ==
    /\ widths \in WidthSets
    /\ \E ns \in 1..MaxRecords :
         /\ index \in [1..ns -> (0..MaxStart) \X (1..MaxRecords)]
         /\ SumLengths(index, ns) <= MaxRecords
         /\ \E rs \in [1..SumLengths(index, ns) -> RecordSet(widths)] :
               bytes = EncodeAll(rs, widths, 1)
    /\ document \in BOOLEAN
    /\ idx = 1
    /\ i = 0
    /\ bptr = 0
    /\ refs = <<FreeHead(document)>>
    /\ log = <<>>
    /\ section = <<>>
    /\ pcx = "read"
    /\ WIdle

NextX == ReadEntry \/ NextSubsection \/ Finish

SpecX == InitX /\ [][NextX]_vars

(***************************************************************************)
(* C4: the entries are decoded from consecutive records: the p-th entry    *)
(* read, counted over all subsections, comes from record p, and Σ count    *)
(* entries are read in all.                                                *)
(***************************************************************************)
C4_ConsecutiveRecords ==
    /\ \A p \in 1..Len(log) :
          log[p].at = (p - 1) * TotalEntryWidth(widths)
    /\ pcx = "done" => Len(log) = SumLengths(index, Len(index))

(***************************************************************************)
(* C5: no two in-use references appended to the xref have the same         *)
(* (object_number, generation_number).                                     *)
(***************************************************************************)
C5_InUseUnique ==
    pcx = "done" =>
        \A a, b \in 1..Len(section) :
            (/\ a # b
             /\ section[a].is_in_use /\ section[b].is_in_use
             /\ section[a].object_number = section[b].object_number) =>
                section[a].generation_number # section[b].generation_number

(***************************************************************************)
(* C6: at every step of the read an in-use reference has a byte_offset or  *)
(* a parent_stream_object_number with its index, never both and never      *)
(* neither.                                                                *)
(***************************************************************************)
ByOffset(r) == r.byte_offset # None

ByParentStream(r) ==
    r.parent_stream_object_number # None /\ r.index_in_parent_stream # None

C6_LocatedOneWay ==
    \A k \in 1..Len(refs) :
        refs[k].is_in_use =>
            /\ ByOffset(refs[k]) \/ ByParentStream(refs[k])
            /\ ~(ByOffset(refs[k]) /\ refs[k].parent_stream_object_number # None)

(***************************************************************************)
(* C7: the head of the free list (object 0, generation 65535, not in use)  *)
(* is appended exactly once and is the only entry of object number 0.      *)
(***************************************************************************)
C7_FreeHeadOnce ==
    pcx = "done" =>
        LET zero == {k \in 1..Len(section) : section[k].object_number = 0}
        IN /\ Cardinality(zero) = 1
           /\ \A k \in zero :
                 /\ section[k].generation_number = FreeHeadGeneration
                 /\ ~section[k].is_in_use

(***************************************************************************)
(* C8: an entry of a type other than 0, 1 and 2 is ignored: no error is    *)
(* raised, no reference is added for it, and the read goes on.             *)
(***************************************************************************)
C8_UnknownTypeIgnored ==
    \A p \in 1..Len(log) :
        log[p].type \notin {0, 1, 2} => pcx # "error"

====
